---------------------------- MODULE Spec2Model ----------------------------
(***************************************************************************)
(* docsify-tools: the sidebar generators (docsify-auto-sidebar and the     *)
(* older one of src/index.ts) and the markdown documenter                  *)
(* (generate-ts-doc): filename and link derivation, page generation.       *)
(*                                                                         *)
(* A JavaScript string is modelled as a sequence of one-character strings, *)
(* so that the regular expressions, split/join, replace and basename of    *)
(* the source are computed character by character.                         *)
(***************************************************************************)
EXTENDS Integers, Sequences, FiniteSets, TLC

VARIABLES
    pc,          \* position of the running program
    fs,          \* sidebar CLI: the entries of the docs directory, in readdir order
    root,        \* sidebar CLI: `root`, the Entry returned by buildTree(dir)
    sidebarFile, \* sidebar CLI: content of <dir>/_sidebar.md
    nnName,      \* niceName: argument `name`
    nnLabel,     \* niceName: returned label
    apiItem,     \* _getFilenameForApiItem: apiItem.getHierarchy(), root first
    filename,    \* _getFilenameForApiItem: returned string
    fault,       \* sidebar CLI: the file system call that throws in this run, if any
    exitCode,    \* sidebar CLI: process.exit status, -1 while not exited
    stderr,      \* sidebar CLI: what console.error printed
    sysRoot,     \* older sidebar CLI: the entries of the file system root "/"
    fromItem,    \* _getLinkFilenameForApiItem: fromApiItem.getHierarchy()
    link,        \* _getLinkFilenameForApiItem: returned string
    apiModel,    \* generateFiles: this._apiModel.packages
    outFiles,    \* generateFiles: the files of the output folder
    writes,      \* generateFiles: the FileSystem.writeFile calls made so far
    agenda       \* generateFiles: what the run still has to do, in order

sidebarEnv == <<fault, exitCode, stderr, sysRoot>>
linkVars == <<fromItem, link>>
genVars == <<apiModel, outFiles, writes, agenda>>

vars == <<pc, fs, root, sidebarFile, nnName, nnLabel, apiItem, filename,
          fault, exitCode, stderr, sysRoot, fromItem, link,
          apiModel, outFiles, writes, agenda>>

-----------------------------------------------------------------------------
(* JavaScript string primitives used by the source *)

NL == "\n"

Digits == {"0", "1", "2", "3", "4", "5", "6", "7", "8", "9"}

\* s.startsWith(p)
StartsWith(s, p) == Len(p) <= Len(s) /\ SubSeq(s, 1, Len(p)) = p

\* s.endsWith(p)
EndsWith(s, p) == Len(p) <= Len(s) /\ SubSeq(s, Len(s) - Len(p) + 1, Len(s)) = p

\* s.includes(sub): what an unanchored literal regular expression tests
Contains(s, sub) ==
    \E i \in 1..(Len(s) - Len(sub) + 1) : SubSeq(s, i, i + Len(sub) - 1) = sub

\* s.indexOf(c) for a one-character c, 1-based; 0 when absent
IndexOf(s, c) ==
    IF \E i \in 1..Len(s) : s[i] = c
    THEN CHOOSE i \in 1..Len(s) : s[i] = c /\ \A j \in 1..(i - 1) : s[j] # c
    ELSE 0

\* s.split(c) for a one-character separator: never empty, ''.split(c) = ['']
RECURSIVE Split(_, _)
Split(s, c) ==
    LET i == IndexOf(s, c)
    IN  IF i = 0 THEN <<s>>
        ELSE <<SubSeq(s, 1, i - 1)>> \o Split(SubSeq(s, i + 1, Len(s)), c)

\* parts.join(sep)
RECURSIVE Join(_, _)
Join(parts, sep) ==
    IF Len(parts) = 0 THEN <<>>
    ELSE IF Len(parts) = 1 THEN parts[1]
    ELSE parts[1] \o sep \o Join(Tail(parts), sep)

\* s.replace(/ /g, '%20')
\* (a replace without the g flag)
ReplaceSpacesFirstOnly(s) ==
    LET i == IndexOf(s, " ")
    IN  IF i = 0 THEN s
        ELSE SubSeq(s, 1, i - 1) \o <<"%", "2", "0">> \o SubSeq(s, i + 1, Len(s))

RECURSIVE ReplaceSpaces(_)
ReplaceSpaces(s) ==
    IF Len(s) = 0 THEN <<>>
    ELSE (IF Head(s) = " " THEN <<"%", "2", "0">> ELSE <<Head(s)>>)
         \o ReplaceSpaces(Tail(s))

-----------------------------------------------------------------------------
(* Number(s): the StringNumericLiteral grammar; NaN when s is not one *)

WhiteSpace == {" ", "\t", NL, "\r"}

RECURSIVE TrimLeft(_)
TrimLeft(s) ==
    IF Len(s) > 0 /\ Head(s) \in WhiteSpace THEN TrimLeft(Tail(s)) ELSE s

RECURSIVE TrimRight(_)
TrimRight(s) ==
    IF Len(s) > 0 /\ s[Len(s)] \in WhiteSpace
    THEN TrimRight(SubSeq(s, 1, Len(s) - 1)) ELSE s

AllIn(s, set) == \A i \in 1..Len(s) : s[i] \in set

\* DecimalDigits
IsDigits(s) == Len(s) > 0 /\ AllIn(s, Digits)

\* an optional sign followed by DecimalDigits
IsSignedInteger(s) ==
    IF Len(s) > 0 /\ Head(s) \in {"+", "-"} THEN IsDigits(Tail(s)) ELSE IsDigits(s)

\* digits with at most one ".", at least one digit
IsMantissa(s) ==
    LET d == IndexOf(s, ".")
    IN  IF d = 0 THEN IsDigits(s)
        ELSE /\ AllIn(SubSeq(s, 1, d - 1), Digits)
             /\ AllIn(SubSeq(s, d + 1, Len(s)), Digits)
             /\ Len(s) > 1

\* StrUnsignedDecimalLiteral
IsUnsignedDecimal(s) ==
    \/ s = <<"I", "n", "f", "i", "n", "i", "t", "y">>
    \/ IsMantissa(s)
    \/ \E e \in 1..Len(s) :
          /\ s[e] \in {"e", "E"}
          /\ IsMantissa(SubSeq(s, 1, e - 1))
          /\ IsSignedInteger(SubSeq(s, e + 1, Len(s)))

\* 0x.., 0o.., 0b.. (unsigned)
IsRadixLiteral(s) ==
    /\ Len(s) > 2
    /\ s[1] = "0"
    /\ LET body == SubSeq(s, 3, Len(s))
       IN  \/ s[2] \in {"x", "X"}
              /\ AllIn(body, Digits \cup {"a", "b", "c", "d", "e", "f",
                                          "A", "B", "C", "D", "E", "F"})
           \/ s[2] \in {"o", "O"} /\ AllIn(body, {"0", "1", "2", "3", "4", "5", "6", "7"})
           \/ s[2] \in {"b", "B"} /\ AllIn(body, {"0", "1"})

\* Number.isNaN(Number(s))
NumberIsNaN(s) ==
    LET t == TrimRight(TrimLeft(s))
    IN  ~ \/ Len(t) = 0
          \/ IsRadixLiteral(t)
          \/ IF Len(t) > 0 /\ Head(t) \in {"+", "-"}
             THEN IsUnsignedDecimal(Tail(t))
             ELSE IsUnsignedDecimal(t)


-----------------------------------------------------------------------------
(* docsify-auto-sidebar *)

DotMd == <<".", "m", "d">>

LineTerminators == {NL, "\r"}

\* ignores.test(item), ignores = /node_modules|^\.|_sidebar|_docsify/
ignoresWholeName(item) ==
    \/ item = <<"n", "o", "d", "e", "_", "m", "o", "d", "u", "l", "e", "s">>
    \/ StartsWith(item, <<".">>)
    \/ item = <<"_", "s", "i", "d", "e", "b", "a", "r">>
    \/ item = <<"_", "d", "o", "c", "s", "i", "f", "y">>

ignores(item) ==
    \/ Contains(item, <<"n", "o", "d", "e", "_", "m", "o", "d", "u", "l", "e", "s">>)
    \/ StartsWith(item, <<".">>)
    \/ Contains(item, <<"_", "s", "i", "d", "e", "b", "a", "r">>)
    \/ Contains(item, <<"_", "d", "o", "c", "s", "i", "f", "y">>)

\* isDoc.test(item), isDoc = /.md$/ : the dot is unescaped, so it stands for
\* any one character that is not a line terminator
isDoc(item) ==
    /\ Len(item) >= 3
    /\ EndsWith(item, <<"m", "d">>)
    /\ item[Len(item) - 2] \notin LineTerminators

\* path.basename(p, ext) for a p without "/" (a directory entry's name)
basename(p, ext) ==
    IF Len(ext) > 0 /\ Len(ext) <= Len(p)
    THEN IF p = ext THEN <<>>
         ELSE IF EndsWith(p, ext) THEN SubSeq(p, 1, Len(p) - Len(ext)) ELSE p
    ELSE p

niceNameFirstDashOnly(name) ==
    LET splitName == Split(name, "-")
    IN  IF NumberIsNaN(splitName[1]) THEN name
        ELSE Join(Tail(splitName), <<"-">>)

niceName(name) ==
    LET splitName == Split(name, "-")
    IN  IF NumberIsNaN(splitName[1]) THEN name
        ELSE Join(Tail(splitName), <<" ">>)

\* A directory on disk is the sequence of its entries in readdirSync order;
\* an entry is [name, isDir, entries] (entries = <<>> for a file).
\* buildTree(location, name, tPath): `dir` is what readdirSync(location) and
\* statSync(path.join(location, item)) return for the entries of location.
RECURSIVE buildTree(_, _, _)
RECURSIVE buildChildren(_, _, _)
RECURSIVE buildChildrenNoPrune(_, _, _)

\* the for loop of buildTree from its i-th item on
buildChildrenNoPrune(dir, tPath, i) ==
    IF i > Len(dir) THEN <<>>
    ELSE LET item == dir[i].name
             iPath == tPath \o <<"/">> \o item
             rest == buildChildrenNoPrune(dir, tPath, i + 1)
         IN  IF ignores(item) THEN rest
             ELSE IF dir[i].isDir
                  THEN <<buildTree(dir[i].entries, item, iPath)>> \o rest
             ELSE IF isDoc(item)
                  THEN <<[name |-> item, path |-> iPath]>> \o rest
             ELSE rest

buildChildren(dir, tPath, i) ==
    IF i > Len(dir) THEN <<>>
    ELSE LET item == dir[i].name
             iPath == tPath \o <<"/">> \o item
             rest == buildChildren(dir, tPath, i + 1)
         IN  IF ignores(item) THEN rest
             ELSE IF dir[i].isDir
                  THEN LET sub == buildTree(dir[i].entries, item, iPath)
                       IN  IF Len(sub.children) > 0
                           THEN <<buildTree(dir[i].entries, item, iPath)>> \o rest
                           ELSE rest
             ELSE IF isDoc(item)
                  THEN <<[name |-> item, path |-> iPath]>> \o rest
             ELSE rest

buildTree(dir, name, tPath) ==
    [name |-> name, children |-> buildChildren(dir, tPath, 1), path |-> tPath]

\* !tree.children : a leaf is an Entry without the children field
IsLeaf(tree) == "children" \notin DOMAIN tree

NoIndentLines(text) == text

\* .split('\n').map(item => '  ' + item).join('\n')
IndentLines(text) ==
    LET lines == Split(text, NL)
    IN  Join([k \in 1..Len(lines) |-> <<" ", " ">> \o lines[k]], <<NL>>)

\* `- [${niceName(path.basename(tree.name, '.md'))}](${tree.path.replace(/ /g, '%20')})`
LinkLineToMdFile(tree) ==
    <<"-", " ", "[">> \o niceName(basename(tree.name, DotMd)) \o <<"]", "(">>
        \o ReplaceSpaces(tree.path) \o DotMd \o <<")">>

LinkLine(tree) ==
    <<"-", " ", "[">> \o niceName(basename(tree.name, DotMd)) \o <<"]", "(">>
        \o ReplaceSpaces(tree.path) \o <<")">>

RECURSIVE renderToMd(_, _)

renderToMdLastChildFirst(tree, linkDir) ==
    IF IsLeaf(tree) THEN LinkLine(tree)
    ELSE LET fileNames == {tree.children[k].name :
                             k \in {j \in 1..Len(tree.children) : IsLeaf(tree.children[j])}}
             dirNames == {tree.children[k].name \o DotMd :
                             k \in {j \in 1..Len(tree.children) : ~IsLeaf(tree.children[j])}}
             keep(c) == c.name \notin fileNames \/ c.name \notin dirNames
             kept == SelectSeq(tree.children, keep)
             rendered == [k \in 1..Len(kept) |->
                            renderToMd(kept[Len(kept) + 1 - k],
                                       (kept[Len(kept) + 1 - k].name \o DotMd) \in dirNames
                                       /\ (kept[Len(kept) + 1 - k].name \o DotMd) \in fileNames)]
             content == IndentLines(Join(rendered, <<NL>>))
             prefix == IF tree.name # <<>>
                       THEN IF linkDir THEN LinkLine(tree) \o <<NL>>
                            ELSE <<"-", " ">> \o niceName(tree.name) \o <<NL>>
                       ELSE <<>>
         IN  prefix \o content

renderToMd(tree, linkDir) ==
    IF IsLeaf(tree) THEN LinkLine(tree)
    ELSE LET fileNames == {tree.children[k].name :
                             k \in {j \in 1..Len(tree.children) : IsLeaf(tree.children[j])}}
             dirNames == {tree.children[k].name \o DotMd :
                             k \in {j \in 1..Len(tree.children) : ~IsLeaf(tree.children[j])}}
             keep(c) == c.name \notin fileNames \/ c.name \notin dirNames
             kept == SelectSeq(tree.children, keep)
             rendered == [k \in 1..Len(kept) |->
                            renderToMd(kept[k], (kept[k].name \o DotMd) \in dirNames
                                                /\ (kept[k].name \o DotMd) \in fileNames)]
             content == IndentLines(Join(rendered, <<NL>>))
             prefix == IF tree.name # <<>>
                       THEN IF linkDir THEN LinkLine(tree) \o <<NL>>
                            ELSE <<"-", " ">> \o niceName(tree.name) \o <<NL>>
                       ELSE <<>>
         IN  prefix \o content


-----------------------------------------------------------------------------
(* The docs directories the sidebar CLI is run on *)

MaxNodes == 3

A_cmd == <<"c", ".", "m", "d">>
A_Xmd == <<"X", ".", "m", "d">>
A_xmd == <<"x", "m", "d">>
A_abmd == <<"a", "-", "b", ".", "m", "d">>
A_txt == <<"t", ".", "t", "x", "t">>
A_sidebarMd == <<"_", "s", "i", "d", "e", "b", "a", "r", ".", "m", "d">>
A_X == <<"X">>
A_a_b == <<"a", " ", "b">>
A_git == <<".", "g", "i", "t">>
A_1G == <<"1", "-", "G">>
A_Guides == <<"1", "-", "G", "u", "i", "d", "e", "s">>
A_API == <<"2", "-", "A", "P", "I">>
A_intro == <<"i", "n", "t", "r", "o", ".", "m", "d">>
A_notes == <<"n", "o", "t", "e", "s", ".", "m", "d">>

FileNames == {A_cmd, A_Xmd, A_xmd, A_abmd, A_txt, A_sidebarMd}
DirNames == {A_X, A_a_b, A_git, A_1G}

File(n) == [name |-> n, isDir |-> FALSE, entries |-> <<>>]
Dir(n, es) == [name |-> n, isDir |-> TRUE, entries |-> es]

\* the names of a directory's entries are pairwise distinct
DistinctNames(es) == \A i, j \in 1..Len(es) : es[i].name = es[j].name => i = j

\* every directory listing holding exactly n entries in all, nested ones included
RECURSIVE ListingsOf(_)
RECURSIVE EntriesOf(_)
EntriesOf(n) ==
    (IF n = 1 THEN {File(f) : f \in FileNames} ELSE {})
    \cup {Dir(d, es) : d \in DirNames, es \in ListingsOf(n - 1)}

ListingsOf(n) ==
    IF n = 0 THEN {<<>>}
    ELSE {l \in UNION {{<<e>> \o rest : e \in EntriesOf(k), rest \in ListingsOf(n - k)} :
                          k \in 1..n} : DistinctNames(l)}

\* the directory of the end-to-end scenario: 1-Guides/intro.md, 2-API/, notes.md
ScenarioFS == <<Dir(A_Guides, <<File(A_intro)>>), Dir(A_API, <<>>), File(A_notes)>>

DocsDirs == UNION {ListingsOf(n) : n \in 0..MaxNodes} \cup {ScenarioFS}

-----------------------------------------------------------------------------
(* The sidebar CLI: try { root = buildTree(dir); writeFileSync(..) } *)

NoEntry == [unset |-> TRUE]
NoFile == [exists |-> FALSE, text |-> <<>>]
StaleText == <<"-", " ", "o", "l", "d">>

HasEntry(dir, n) == \E i \in 1..Len(dir) : dir[i].name = n

NoFault == [op |-> "none", path |-> <<>>]

IdleNiceName == nnName = <<>> /\ nnLabel = <<>>
IdleFilename == apiItem = <<>> /\ filename = <<>> /\ fromItem = <<>> /\ link = <<>>
IdleGenerate == apiModel = <<>> /\ outFiles = {} /\ writes = <<>> /\ agenda = <<>>
NoFaults == fault = NoFault /\ exitCode = -1 /\ stderr = <<>> /\ sysRoot = <<>>

\* let dir = path.resolve(process.cwd(), args.docsDir || './docs')
DocsDirPath == <<"/", "w", "/", "d", "o", "c", "s">>

buildTreeThrowsAtTopOnly(dir, tPath, f) ==
    \/ f.op = "readdir" /\ f.path = tPath
    \/ \E i \in 1..Len(dir) :
          /\ ~ignores(dir[i].name)
          /\ f.op = "stat"
          /\ f.path = tPath \o <<"/">> \o dir[i].name

\* buildTree(location, name, tPath) throws: fs.readdirSync(location) does, or
\* fs.statSync(iLocation) of an item that is not ignored, or the buildTree of
\* a directory among the items
RECURSIVE buildTreeThrows(_, _, _)
buildTreeThrows(dir, tPath, f) ==
    \/ f.op = "readdir" /\ f.path = tPath
    \/ \E i \in 1..Len(dir) :
          /\ ~ignores(dir[i].name)
          /\ \/ f.op = "stat" /\ f.path = tPath \o <<"/">> \o dir[i].name
             \/ dir[i].isDir
                  /\ buildTreeThrows(dir[i].entries, tPath \o <<"/">> \o dir[i].name, f)

\* console.error('Unable to generate sidebar for directory', dir);
\* console.error('Reason:', e.message)
Diagnostic(f) ==
    <<[text |-> "Unable to generate sidebar for directory", value |-> DocsDirPath],
      [text |-> "Reason:", value |-> <<f.op>> \o f.path]>>

InitSidebar ==
    /\ pc = "start"
    /\ fs \in DocsDirs
    /\ root = NoEntry
    /\ sidebarFile = IF HasEntry(fs, A_sidebarMd)
                     THEN [exists |-> TRUE, text |-> StaleText] ELSE NoFile
    /\ NoFaults
    /\ IdleNiceName
    /\ IdleFilename
    /\ IdleGenerate

\* let root = buildTree(dir)
BuildTree ==
    /\ pc = "start"
    /\ ~buildTreeThrows(fs, <<>>, fault)
    /\ root' = buildTree(fs, <<>>, <<>>)
    /\ pc' = "built"
    /\ UNCHANGED <<fs, sidebarFile, nnName, nnLabel, apiItem, filename>>
    /\ UNCHANGED <<sidebarEnv, linkVars, genVars>>

\* fs.writeFileSync(path.join(dir, '_sidebar.md'), renderToMd(root))
WriteSidebar ==
    /\ pc = "built"
    /\ fault.op # "write"
    /\ sidebarFile' = [exists |-> TRUE, text |-> renderToMd(root, FALSE)]
    /\ fs' = IF HasEntry(fs, A_sidebarMd) THEN fs ELSE Append(fs, File(A_sidebarMd))
    /\ pc' = "done"
    /\ UNCHANGED <<root, nnName, nnLabel, apiItem, filename>>
    /\ UNCHANGED <<sidebarEnv, linkVars, genVars>>

NextSidebar == BuildTree \/ WriteSidebar

SpecSidebar == InitSidebar /\ [][NextSidebar]_vars

-----------------------------------------------------------------------------
(* The sidebar CLI when a file system call fails *)

\* the number of entries of the docs directory of a failing run
MaxFaultNodes == 2

\* the paths (tPath form) of the directories and of all entries below a listing
RECURSIVE DirPaths(_, _)
DirPaths(dir, tPath) ==
    {tPath} \cup UNION {DirPaths(dir[i].entries, tPath \o <<"/">> \o dir[i].name) :
                          i \in {j \in 1..Len(dir) : dir[j].isDir}}

RECURSIVE EntryPaths(_, _)
EntryPaths(dir, tPath) ==
    UNION {{tPath \o <<"/">> \o dir[i].name}
              \cup EntryPaths(dir[i].entries, tPath \o <<"/">> \o dir[i].name) :
             i \in 1..Len(dir)}

\* the one call that fails in a run: readdirSync of a directory, statSync of
\* an entry, or writeFileSync of _sidebar.md
Faults(dir) ==
    {NoFault, [op |-> "write", path |-> <<"/">> \o A_sidebarMd]}
        \cup {[op |-> "readdir", path |-> p] : p \in DirPaths(dir, <<>>)}
        \cup {[op |-> "stat", path |-> p] : p \in EntryPaths(dir, <<>>)}

InitSidebarFaults ==
    /\ pc = "start"
    /\ fs \in UNION {ListingsOf(n) : n \in 0..MaxFaultNodes}
    /\ fault \in Faults(fs)
    /\ root = NoEntry
    /\ sidebarFile = IF HasEntry(fs, A_sidebarMd)
                     THEN [exists |-> TRUE, text |-> StaleText] ELSE NoFile
    /\ exitCode = -1
    /\ stderr = <<>>
    /\ sysRoot = <<>>
    /\ IdleNiceName
    /\ IdleFilename
    /\ IdleGenerate

\* buildTree(dir) throws; catch (e): the two console.error, process.exit(1)
BuildTreeThrows ==
    /\ pc = "start"
    /\ buildTreeThrows(fs, <<>>, fault)
    /\ stderr' = Diagnostic(fault)
    /\ exitCode' = 1
    /\ pc' = "failed"
    /\ UNCHANGED <<fs, root, sidebarFile, fault, sysRoot>>
    /\ UNCHANGED <<nnName, nnLabel, apiItem, filename, linkVars, genVars>>

\* fs.writeFileSync throws, the file left as it was or created or emptied by
\* the open; catch (e): the two console.error, process.exit(1)
WriteSidebarThrows ==
    /\ pc = "built"
    /\ fault.op = "write"
    /\ \/ UNCHANGED <<fs, sidebarFile>>
       \/ /\ sidebarFile' = [exists |-> TRUE, text |-> <<>>]
          /\ fs' = IF HasEntry(fs, A_sidebarMd) THEN fs ELSE Append(fs, File(A_sidebarMd))
    /\ stderr' = Diagnostic(fault)
    /\ exitCode' = 1
    /\ pc' = "failed"
    /\ UNCHANGED <<root, fault, sysRoot>>
    /\ UNCHANGED <<nnName, nnLabel, apiItem, filename, linkVars, genVars>>

NextSidebarFaults == BuildTree \/ WriteSidebar \/ BuildTreeThrows \/ WriteSidebarThrows

SpecSidebarFaults == InitSidebarFaults /\ [][NextSidebarFaults]_vars

-----------------------------------------------------------------------------
(* Vocabulary of the properties of the sidebar generator *)

\* every node of a built tree, the tree's own root included
RECURSIVE NodesOf(_)
NodesOf(t) ==
    {t} \cup (IF IsLeaf(t) THEN {}
              ELSE UNION {NodesOf(t.children[k]) : k \in 1..Len(t.children)})

Containers(t) == {n \in NodesOf(t) : ~IsLeaf(n)}
Leaves(t) == {n \in NodesOf(t) : IsLeaf(n)}
Children(t) == {t.children[k] : k \in 1..Len(t.children)}

\* every directory / file below a listing, with its path from the docs root
\* and the names on that path (segs)
RECURSIVE DirsOf(_, _, _)
DirsOf(es, tPath, segs) ==
    UNION {IF es[i].isDir
           THEN {[path |-> tPath \o <<"/">> \o es[i].name,
                  segs |-> Append(segs, es[i].name),
                  entries |-> es[i].entries]}
                \cup DirsOf(es[i].entries, tPath \o <<"/">> \o es[i].name,
                            Append(segs, es[i].name))
           ELSE {} : i \in 1..Len(es)}

RECURSIVE FilesOf(_, _, _)
FilesOf(es, tPath, segs) ==
    UNION {IF es[i].isDir
           THEN FilesOf(es[i].entries, tPath \o <<"/">> \o es[i].name,
                        Append(segs, es[i].name))
           ELSE {[path |-> tPath \o <<"/">> \o es[i].name,
                  segs |-> Append(segs, es[i].name),
                  name |-> es[i].name]} : i \in 1..Len(es)}

\* a file somewhere below the listing that the builder takes for a document
HoldsDoc(es) == \E f \in FilesOf(es, <<>>, <<>>) : isDoc(f.name)

SegSet(segs) == {segs[i] : i \in 1..Len(segs)}

\* the lines of the written sidebar
Lines == Split(sidebarFile.text, NL)
LineSet == {Lines[i] : i \in 1..Len(Lines)}
Indent(d) == [i \in 1..(2 * d) |-> " "]
\* depth below the root: the number of "/" of the path
Depth(n) == Len(Split(n.path, "/")) - 1

\* every " " as %20, nothing else touched
Enc(s) == Join(Split(s, " "), <<"%", "2", "0">>)
StripMd(n) == IF EndsWith(n, DotMd) THEN SubSeq(n, 1, Len(n) - 3) ELSE n

LeafLineOf(n) ==
    Indent(Depth(n)) \o <<"-", " ", "[">> \o niceName(StripMd(n.name))
        \o <<"]", "(">> \o Enc(n.path) \o <<")">>

\* the leaf X.md beside the container X, and the other way round
HasDirTwin(t, c) ==
    IsLeaf(c) /\ \E x \in Children(t) : ~IsLeaf(x) /\ x.name \o DotMd = c.name
HasFileTwin(t, c) ==
    ~IsLeaf(c) /\ \E f \in Children(t) : IsLeaf(f) /\ f.name = c.name \o DotMd

-----------------------------------------------------------------------------
(* C1 *)

\* C1 as stated: after buildTree, every container node of the built tree,
\* the root included, has at least one child.
C1_EveryContainerNonEmpty ==
    pc = "built" => \A n \in Containers(root) : Len(n.children) >= 1

\* C1 (amended): after buildTree every container node other than the root has
\* at least one child, and a directory whose whole subtree holds no file the
\* builder takes for a document is in nobody's children; only the root itself
\* may come back with an empty children list.
C1_NoEmptyContainerBelowRoot ==
    pc = "built" =>
        /\ \A n \in Containers(root) : n.path # <<>> => Len(n.children) >= 1
        /\ \A d \in DirsOf(fs, <<>>, <<>>) :
              ~HoldsDoc(d.entries) => \A n \in NodesOf(root) : n.path # d.path

\* a directory without a document was pruned, and another directory was kept
\* as a container
C1_Witness ==
    /\ pc = "built"
    /\ \E d \in DirsOf(fs, <<>>, <<>>) :
          /\ ~HoldsDoc(d.entries)
          /\ \A n \in NodesOf(root) : n.path # d.path
    /\ \E n \in Containers(root) : n.path # <<>>

-----------------------------------------------------------------------------
(* C2 *)

\* C2: every leaf of the built tree is a file whose name ends with the
\* literal suffix ".md".
C2_LeavesEndWithDotMd ==
    pc = "built" => \A n \in Leaves(root) : EndsWith(n.name, DotMd)

-----------------------------------------------------------------------------
(* C3 *)

NodeModules == <<"n", "o", "d", "e", "_", "m", "o", "d", "u", "l", "e", "s">>
Reserved == {<<"_", "s", "i", "d", "e", "b", "a", "r">>,
             <<"_", "d", "o", "c", "s", "i", "f", "y">>}

\* the three conditions as C3 words them
SkipAsStated(n) ==
    StartsWith(n, <<".">>) \/ n \in Reserved \/ Contains(n, NodeModules)

\* the three conditions with "equal to" read as "contains"
SkipContains(n) ==
    \/ StartsWith(n, <<".">>)
    \/ \E r \in Reserved : Contains(n, r)
    \/ Contains(n, NodeModules)

\* C3 as stated: an entry is kept out of the tree exactly when its name begins
\* with ".", equals a reserved name or contains node_modules; so a document
\* none of whose path names meets a condition is a leaf of the tree.
C3_SkipExactlyAsStated ==
    pc = "built" =>
        /\ \A n \in NodesOf(root) : \A s \in SegSet(Split(n.path, "/")) : ~SkipAsStated(s)
        /\ \A f \in FilesOf(fs, <<>>, <<>>) :
              (isDoc(f.name) /\ \A s \in SegSet(f.segs) : ~SkipAsStated(s))
                  => \E n \in Leaves(root) : n.path = f.path

\* C3 (amended): an entry is skipped, with its whole subtree, exactly when its
\* name begins with ".", or contains _sidebar, _docsify or node_modules: no
\* node of the tree has such a name on its path, and every document none of
\* whose path names is such a name is a leaf of the tree.
C3_SkipExactlyContains ==
    pc = "built" =>
        /\ \A n \in NodesOf(root) : \A s \in SegSet(Split(n.path, "/")) : ~SkipContains(s)
        /\ \A f \in FilesOf(fs, <<>>, <<>>) :
              (isDoc(f.name) /\ \A s \in SegSet(f.segs) : ~SkipContains(s))
                  => \E n \in Leaves(root) : n.path = f.path

\* a document below a skipped directory is missing from a tree that has a leaf
C3_Witness ==
    /\ pc = "built"
    /\ \E f \in FilesOf(fs, <<>>, <<>>) :
          /\ isDoc(f.name)
          /\ Len(f.segs) > 1
          /\ SkipContains(f.segs[1])
          /\ \A n \in NodesOf(root) : n.path # f.path
    /\ Leaves(root) # {}


-----------------------------------------------------------------------------
(* C4 *)

ScenarioWritten == pc = "done" /\ fs = Append(ScenarioFS, File(A_sidebarMd))

ScenarioTree ==
    [name |-> <<>>, path |-> <<>>,
     children |-> <<[name |-> A_Guides, path |-> <<"/">> \o A_Guides,
                     children |-> <<[name |-> A_intro,
                                     path |-> <<"/">> \o A_Guides \o <<"/">> \o A_intro]>>],
                    [name |-> A_notes, path |-> <<"/">> \o A_notes]>>]

\* "- Guides", "  - [intro](/1-Guides/intro.md)", "- [notes](/notes.md)"
ScenarioLine1 == <<"-", " ", "G", "u", "i", "d", "e", "s">>
ScenarioLine2 ==
    <<" ", " ", "-", " ", "[", "i", "n", "t", "r", "o", "]", "(", "/">> \o A_Guides
        \o <<"/">> \o A_intro \o <<")">>
ScenarioLine3 ==
    <<"-", " ", "[", "n", "o", "t", "e", "s", "]", "(", "/">> \o A_notes \o <<")">>

\* C4 as stated: on the scenario directory the tree is the two-child tree and
\* the sidebar is exactly the three lines, top-level entries in column 0.
C4_ScenarioColumn0 ==
    ScenarioWritten =>
        /\ root = ScenarioTree
        /\ sidebarFile.text = ScenarioLine1 \o <<NL>> \o ScenarioLine2 \o <<NL>> \o ScenarioLine3

\* C4 (amended): on the scenario directory the tree is the two-child tree
\* (2-API pruned) and the sidebar is the three lines each indented by two more
\* spaces: the top-level entries start in column 2.
C4_ScenarioIndented ==
    ScenarioWritten =>
        /\ root = ScenarioTree
        /\ sidebarFile.text =
              <<" ", " ">> \o ScenarioLine1 \o <<NL, " ", " ">> \o ScenarioLine2
                  \o <<NL, " ", " ">> \o ScenarioLine3

\* the sidebar of the scenario directory has been written
C4_Witness == ScenarioWritten /\ sidebarFile.exists /\ Len(sidebarFile.text) > 0

-----------------------------------------------------------------------------
(* C5 *)

LinkTo(label, target) == <<"-", " ", "[">> \o label \o <<"]", "(">> \o target \o <<")">>

\* line i is followed by a line of a child one level deeper
ChildLineFollows(i, x) ==
    i < Len(Lines) /\ StartsWith(Lines[i + 1], Indent(Depth(x) + 1) \o <<"-", " ">>)

\* the container x has no leaf x.md beside it: a plain heading, no link line
PlainHeading(x) ==
    /\ \E i \in 1..Len(Lines) :
          Lines[i] = Indent(Depth(x)) \o <<"-", " ">> \o niceName(x.name)
    /\ Indent(Depth(x)) \o LinkTo(niceName(StripMd(x.name)), Enc(x.path)) \notin LineSet

\* C5 as stated: for a leaf X.md beside a container X, X is rendered as one
\* link line whose target is the path of X.md, followed by X's children, and
\* a container without such a leaf is a plain heading.
C5_FoldLinksToMdFile ==
    pc = "done" =>
        \A t \in Containers(root) : \A x \in Children(t) :
            /\ HasFileTwin(t, x) =>
                  \E i \in 1..Len(Lines) :
                      /\ Lines[i] = Indent(Depth(x))
                                      \o LinkTo(niceName(StripMd(x.name)), Enc(x.path \o DotMd))
                      /\ \A j \in 1..Len(Lines) : Lines[j] = Lines[i] => j = i
                      /\ ChildLineFollows(i, x)
            /\ (~IsLeaf(x) /\ ~HasFileTwin(t, x)) => PlainHeading(x)

\* C5 (amended): for a leaf X.md beside a container X, the output has no leaf
\* line for X.md, and X is rendered as a link line whose target is the path of
\* the container X itself (the path of X.md without its .md), followed by the
\* indented lines of X's children; a container without such a leaf is a plain
\* heading.
C5_FoldLinksToContainerPath ==
    pc = "done" =>
        \A t \in Containers(root) : \A x \in Children(t) :
            /\ HasDirTwin(t, x) => LeafLineOf(x) \notin LineSet
            /\ HasFileTwin(t, x) =>
                  \E i \in 1..Len(Lines) :
                      /\ Lines[i] = Indent(Depth(x))
                                      \o LinkTo(niceName(StripMd(x.name)), Enc(x.path))
                      /\ \A j \in 1..Len(Lines) : Lines[j] = Lines[i] => j = i
                      /\ ChildLineFollows(i, x)
            /\ (~IsLeaf(x) /\ ~HasFileTwin(t, x)) => PlainHeading(x)

\* a sidebar was written for a tree with a folded pair X.md / X
C5_Witness ==
    /\ pc = "done"
    /\ \E t \in Containers(root) : \E x \in Children(t) : HasFileTwin(t, x)

-----------------------------------------------------------------------------
(* C7 *)

DashesToSpaces(s) == [i \in 1..Len(s) |-> IF s[i] = "-" THEN " " ELSE s[i]]

\* the label the README promises: a leading number and dash dropped, every
\* other dash a space
ReadmeLabel(n) ==
    LET d == IndexOf(n, "-")
    IN  IF d > 1 /\ IsDigits(SubSeq(n, 1, d - 1))
        THEN DashesToSpaces(SubSeq(n, d + 1, Len(n)))
        ELSE DashesToSpaces(n)

\* C7: every entry of the written sidebar carries the README's label: the
\* ordering prefix gone and every other dash of the name replaced by a space.
C7_LabelsAsReadme ==
    pc = "done" =>
        \A t \in Containers(root) : \A x \in Children(t) :
            ~HasDirTwin(t, x) =>
                \/ Indent(Depth(x)) \o LinkTo(ReadmeLabel(StripMd(x.name)), Enc(x.path))
                       \in LineSet
                \/ ~IsLeaf(x)
                   /\ Indent(Depth(x)) \o <<"-", " ">> \o ReadmeLabel(x.name) \in LineSet

-----------------------------------------------------------------------------
(* C8 *)

\* C8: every leaf that is rendered (not folded into its directory) has
\* exactly one line of the sidebar, "- [<label>](<path>)" behind its
\* indentation, with <label> = niceName of the name without a trailing .md
\* and <path> = the path with every space as %20 and nothing else changed.
C8_LeafLine ==
    pc = "done" =>
        \A t \in Containers(root) : \A x \in Children(t) :
            (IsLeaf(x) /\ ~HasDirTwin(t, x)) =>
                Cardinality({i \in 1..Len(Lines) : Lines[i] = LeafLineOf(x)}) = 1

\* the leaf c.md at path "/a b/c.md" was rendered as "- [c](/a%20b/c.md)"
C8_Witness ==
    /\ pc = "done"
    /\ \E n \in Leaves(root) : n.path = <<"/">> \o A_a_b \o <<"/">> \o A_cmd
    /\ <<" ", " ", " ", " ", "-", " ", "[", "c", "]", "(", "/", "a", "%", "2", "0", "b",
         "/", "c", ".", "m", "d", ")">> \in LineSet


-----------------------------------------------------------------------------
(* niceName(name), called on its own *)

MaxNameLen == 4

NameAlphabet == {"0", "1", "-", "a", "e", "x", ".", " "}

N_1Guides == <<"1", "-", "G", "u", "i", "d", "e", "s">>
N_2API == <<"2", "-", "A", "P", "I">>
N_Guides == <<"G", "u", "i", "d", "e", "s">>
N_10MySection == <<"1", "0", "-", "M", "y", "-", "S", "e", "c", "t", "i", "o", "n">>

NameInputs ==
    UNION {[1..n -> NameAlphabet] : n \in 0..MaxNameLen}
        \cup {N_1Guides, N_2API, N_Guides, N_10MySection}

IdleSidebar == fs = <<>> /\ root = NoEntry /\ sidebarFile = NoFile /\ NoFaults

InitNiceName ==
    /\ pc = "nn_call"
    /\ nnName \in NameInputs
    /\ nnLabel = <<>>
    /\ IdleSidebar
    /\ IdleFilename
    /\ IdleGenerate

CallNiceName ==
    /\ pc = "nn_call"
    /\ nnLabel' = niceName(nnName)
    /\ pc' = "nn_ret"
    /\ UNCHANGED <<fs, root, sidebarFile, nnName, apiItem, filename>>
    /\ UNCHANGED <<sidebarEnv, linkVars, genVars>>

NextNiceName == CallNiceName

SpecNiceName == InitNiceName /\ [][NextNiceName]_vars

-----------------------------------------------------------------------------
(* C6 *)

\* the part of the name before its first "-" (the whole name without one)
BeforeFirstDash(n) ==
    IF IndexOf(n, "-") = 0 THEN n ELSE SubSeq(n, 1, IndexOf(n, "-") - 1)
\* what follows the first "-" (nothing without one)
AfterFirstDash(n) ==
    IF IndexOf(n, "-") = 0 THEN <<>> ELSE SubSeq(n, IndexOf(n, "-") + 1, Len(n))

-----------------------------------------------------------------------------
(* MarkdownDocumenter._getFilenameForApiItem *)

UpperCase == <<"A", "B", "C", "D", "E", "F", "G", "H", "I", "J", "K", "L", "M",
               "N", "O", "P", "Q", "R", "S", "T", "U", "V", "W", "X", "Y", "Z">>
LowerCase == <<"a", "b", "c", "d", "e", "f", "g", "h", "i", "j", "k", "l", "m",
               "n", "o", "p", "q", "r", "s", "t", "u", "v", "w", "x", "y", "z">>

\* s.toLowerCase()
toLowerCase(s) ==
    [i \in 1..Len(s) |->
        IF \E k \in 1..Len(UpperCase) : UpperCase[k] = s[i]
        THEN LowerCase[CHOOSE k \in 1..Len(UpperCase) : UpperCase[k] = s[i]]
        ELSE s[i]]

DigitChars == <<"0", "1", "2", "3", "4", "5", "6", "7", "8", "9">>

\* `${n}` for a non-negative integer n
RECURSIVE ToDecimal(_)
ToDecimal(n) ==
    IF n < 10 THEN <<DigitChars[n + 1]>>
    ELSE ToDecimal(n \div 10) \o <<DigitChars[(n % 10) + 1]>>

\* PackageName.getUnscopedName(name): "@scope/name" -> "name"
getUnscopedName(name) ==
    IF Len(name) > 0 /\ Head(name) = "@" /\ IndexOf(name, "/") > 0
    THEN SubSeq(name, IndexOf(name, "/") + 1, Len(name))
    ELSE name

\* ApiParameterListMixin.isBaseClassOf(item): the kinds that carry overloadIndex
ParameterListKinds ==
    {"Constructor", "ConstructSignature", "Function", "Method", "MethodSignature"}

\* the kinds rendered inline on their container's page
InlineKinds == {"Method", "MethodSignature", "Property", "PropertySignature"}

\* let qualifiedName = displayName (+ `_${overloadIndex}` for an overload)
qualifiedName(item) ==
    IF item.kind \in ParameterListKinds /\ item.overloadIndex > 0
    THEN item.displayName \o <<"_">> \o ToDecimal(item.overloadIndex)
    ELSE item.displayName

\* one pass of the for loop over apiItem.getHierarchy()
baseNameStep(baseName, item) ==
    CASE item.kind \in {"Model", "EntryPoint"} -> baseName
      [] item.kind = "Package" -> getUnscopedName(item.displayName)
      [] item.kind \in InlineKinds ->
            baseName \o <<".", "m", "d", "#">> \o toLowerCase(item.displayName)
      [] OTHER -> baseName \o <<"/">> \o qualifiedName(item)

RECURSIVE baseNameLoop(_, _, _)
baseNameLoop(hierarchy, i, baseName) ==
    IF i > Len(hierarchy) THEN baseName
    ELSE baseNameLoop(hierarchy, i + 1, baseNameStep(baseName, hierarchy[i]))

getFilenameAlwaysMd(hierarchy) == baseNameLoop(hierarchy, 1, <<>>) \o DotMd

getFilenameForApiItem(hierarchy) ==
    LET baseName == baseNameLoop(hierarchy, 1, <<>>)
    IN  IF IndexOf(baseName, "#") = 0 THEN baseName \o DotMd ELSE baseName

-----------------------------------------------------------------------------
(* The API items whose filename is derived *)

MaxOverload == 2

P_acme == <<"a", "c", "m", "e">>
P_scoped == <<"@", "s", "/", "a", "c", "m", "e">>
I_Widget == <<"W", "i", "d", "g", "e", "t">>
I_f == <<"f">>
I_NS == <<"N", "S">>
I_render == <<"r", "e", "n", "d", "e", "r">>
I_Go == <<"G", "o">>
I_ctor == <<"(", "c", "o", "n", "s", "t", "r", "u", "c", "t", "o", "r", ")">>

Item(k, n) == [kind |-> k, displayName |-> n]
Callable(k, n, o) == [kind |-> k, displayName |-> n, overloadIndex |-> o]

\* model > package > entry point
HierarchyHeads ==
    {<<Item("Model", <<>>), Item("Package", p), Item("EntryPoint", <<>>)>> :
        p \in {P_acme, P_scoped}}

\* ... optionally inside a namespace
HierarchyScopes ==
    HierarchyHeads \cup {Append(h, Item("Namespace", I_NS)) : h \in HierarchyHeads}

\* a member of a package or namespace
TopItems ==
    {Item(k, n) : k \in {"Class", "Interface", "Enum", "TypeAlias", "Variable"},
                  n \in {I_Widget, I_f}}
        \cup {Callable("Function", n, o) : n \in {I_Widget, I_f}, o \in 0..MaxOverload}

\* a member of a class or interface
MemberItems ==
    {Item(k, n) : k \in {"Property", "PropertySignature"}, n \in {I_render, I_Go}}
        \cup {Callable(k, n, o) : k \in {"Method", "MethodSignature"},
                                  n \in {I_render, I_Go}, o \in 0..MaxOverload}
        \cup {Callable("Constructor", I_ctor, o) : o \in 0..MaxOverload}

Hierarchies ==
    {SubSeq(h, 1, 2) : h \in HierarchyHeads}
        \cup {h \in HierarchyScopes : Len(h) = 4}
        \cup {Append(h, t) : h \in HierarchyScopes, t \in TopItems}
        \cup {Append(Append(h, t), m) :
                h \in HierarchyScopes,
                t \in {x \in TopItems : x.kind \in {"Class", "Interface"}},
                m \in MemberItems}

InitFilename ==
    /\ pc = "fn_call"
    /\ apiItem \in Hierarchies
    /\ filename = <<>>
    /\ fromItem = <<>>
    /\ link = <<>>
    /\ IdleSidebar
    /\ IdleNiceName
    /\ IdleGenerate

\* filename = this._getFilenameForApiItem(apiItem)
GetFilename ==
    /\ pc = "fn_call"
    /\ filename' = getFilenameForApiItem(apiItem)
    /\ pc' = "fn_ret"
    /\ UNCHANGED <<fs, root, sidebarFile, nnName, nnLabel, apiItem>>
    /\ UNCHANGED <<sidebarEnv, linkVars, genVars>>

NextFilename == GetFilename

SpecFilename == InitFilename /\ [][NextFilename]_vars

-----------------------------------------------------------------------------
(* C9 *)

Last(h) == h[Len(h)]

\* the name an item contributes: its display name, an overload's with _<index>
SegmentName(item) ==
    IF "overloadIndex" \in DOMAIN item /\ item.overloadIndex > 0
    THEN item.displayName \o <<"_">> \o ToDecimal(item.overloadIndex)
    ELSE item.displayName

\* "/<name>" for every item from position i on that is not rendered inline
RECURSIVE PathSegments(_, _)
PathSegments(h, i) ==
    IF i > Len(h) THEN <<>>
    ELSE (IF h[i].kind \in {"Model", "EntryPoint", "Package"} \cup InlineKinds THEN <<>>
          ELSE <<"/">> \o SegmentName(h[i])) \o PathSegments(h, i + 1)

UnscopedPackage(h) ==
    LET n == h[2].displayName
    IN  IF Head(n) = "@" THEN Last(Split(n, "/")) ELSE n

-----------------------------------------------------------------------------
(* C10 *)

\* the derived name without the page suffix
Stem(f) == IF IndexOf(f, "#") = 0 /\ EndsWith(f, DotMd) THEN SubSeq(f, 1, Len(f) - 3) ELSE f

\* C10: the filename or anchor of a function, method or method signature with
\* overloadIndex > 0 ends with the item's name suffixed by _<overloadIndex>,
\* that of an overload 0 ends with the bare name; two overloads of one name
\* never derive the same filename or anchor.
C10_OverloadsSuffixed ==
    pc = "fn_ret" =>
        LET it == Last(apiItem)
        IN  it.kind \in {"Function", "Method", "MethodSignature"} =>
                /\ it.overloadIndex > 0 =>
                      EndsWith(toLowerCase(Stem(filename)),
                               toLowerCase(it.displayName) \o <<"_">>
                                   \o ToDecimal(it.overloadIndex))
                /\ it.overloadIndex = 0 =>
                      EndsWith(toLowerCase(Stem(filename)), toLowerCase(it.displayName))
                /\ \A o \in 0..MaxOverload :
                      o # it.overloadIndex =>
                          filename # getFilenameForApiItem(
                              [apiItem EXCEPT ![Len(apiItem)].overloadIndex = o])


-----------------------------------------------------------------------------
(* MarkdownDocumenter._getLinkFilenameForApiItem *)

\* process.cwd(), as the segments of its path
Cwd == <<<<"w">>>>

SetMax(S) == CHOOSE m \in S : \A x \in S : x <= m

\* path.dirname(p) (posix)
dirname(p) ==
    IF Len(p) = 0 THEN <<".">>
    ELSE LET ends == {i \in 2..Len(p) :
                        p[i] = "/" /\ \E j \in (i + 1)..Len(p) : p[j] # "/"}
         IN  IF ends = {} THEN (IF p[1] = "/" THEN <<"/">> ELSE <<".">>)
             ELSE IF p[1] = "/" /\ SetMax(ends) = 2 THEN <<"/", "/">>
             ELSE SubSeq(p, 1, SetMax(ends) - 1)

\* path normalisation over segments: "" and "." dropped, ".." removes the
\* segment before it (and is dropped at the root)
RECURSIVE normalizeSegments(_, _)
normalizeSegments(parts, acc) ==
    IF Len(parts) = 0 THEN acc
    ELSE LET h == Head(parts)
         IN  normalizeSegments(Tail(parts),
                 IF h = <<>> \/ h = <<".">> THEN acc
                 ELSE IF h = <<".", ".">>
                      THEN (IF Len(acc) > 0 THEN SubSeq(acc, 1, Len(acc) - 1) ELSE acc)
                 ELSE Append(acc, h))

\* path.resolve(p): the segments of the absolute path
resolve(p) ==
    IF Len(p) > 0 /\ p[1] = "/" THEN normalizeSegments(Split(p, "/"), <<>>)
    ELSE normalizeSegments(Cwd \o Split(p, "/"), <<>>)

\* path.relative(from, to) (posix): both resolved, the common leading
\* segments dropped, ".." for every segment left of from
relative(from, to) ==
    LET f == resolve(from)
        t == resolve(to)
        shorter == IF Len(f) < Len(t) THEN Len(f) ELSE Len(t)
        common == SetMax({k \in 0..shorter : SubSeq(f, 1, k) = SubSeq(t, 1, k)})
    IN  Join([i \in 1..(Len(f) - common) |-> <<".", ".">>]
                 \o SubSeq(t, common + 1, Len(t)), <<"/">>)

getLinkFilenameNoDirname(item, from) ==
    relative(getFilenameForApiItem(from), getFilenameForApiItem(item))

\* _getLinkFilenameForApiItem(apiItem, fromApiItem)
getLinkFilenameForApiItem(item, from) ==
    LET myDirname == dirname(getFilenameForApiItem(from))
        otherFilename == getFilenameForApiItem(item)
    IN  relative(myDirname, otherFilename)

\* the items links are derived between: up to two namespaces deep
LinkScopes ==
    HierarchyScopes
        \cup {Append(h, Item("Namespace", I_f)) : h \in {x \in HierarchyScopes : Len(x) = 4}}

LinkHierarchies ==
    {SubSeq(h, 1, 2) : h \in HierarchyHeads}
        \cup {h \in LinkScopes : Len(h) > 3}
        \cup {Append(h, Item("Class", I_Widget)) : h \in LinkScopes}
        \cup {Append(h, Callable("Function", I_f, o)) : h \in LinkScopes, o \in {0, MaxOverload}}
        \cup {Append(Append(h, Item("Class", I_Widget)), m) :
                h \in LinkScopes,
                m \in {Callable("Method", I_render, 0), Item("Property", I_Go)}}

InitLink ==
    /\ pc = "link_call"
    /\ apiItem \in LinkHierarchies
    /\ fromItem \in LinkHierarchies
    /\ filename = <<>>
    /\ link = <<>>
    /\ IdleSidebar
    /\ IdleNiceName
    /\ IdleGenerate

\* link = this._getLinkFilenameForApiItem(apiItem, fromApiItem)
GetLinkFilename ==
    /\ pc = "link_call"
    /\ link' = getLinkFilenameForApiItem(apiItem, fromItem)
    /\ pc' = "link_ret"
    /\ UNCHANGED <<fs, root, sidebarFile, nnName, nnLabel, apiItem, filename, fromItem>>
    /\ UNCHANGED <<sidebarEnv, genVars>>

NextLink == GetLinkFilename

SpecLink == InitLink /\ [][NextLink]_vars

-----------------------------------------------------------------------------
(* C11 *)

\* the directory a file name lies in, as segments ("." is no segment)
DirSegments(f) == SubSeq(Split(f, "/"), 1, Len(Split(f, "/")) - 1)

\* walking a relative link from a directory: ".." goes up, a name goes down
RECURSIVE FollowLink(_, _)
FollowLink(dir, steps) ==
    IF Len(steps) = 0 THEN dir
    ELSE FollowLink(IF Head(steps) = <<".", ".">> /\ Len(dir) > 0
                        /\ dir[Len(dir)] # <<".", ".">>
                    THEN SubSeq(dir, 1, Len(dir) - 1)
                    ELSE Append(dir, Head(steps)),
                    Tail(steps))

\* C11: followed from the directory of A's derived filename, the link from A
\* to B arrives exactly at B's derived filename, #anchor included, whatever
\* the nesting depths of A and B.
C11_LinkReachesTarget ==
    pc = "link_ret" =>
        Join(FollowLink(DirSegments(getFilenameForApiItem(fromItem)), Split(link, "/")),
             <<"/">>)
            = getFilenameForApiItem(apiItem)

\* a link from a page two namespaces deep up to an anchor of a class of the
\* package: ../../Widget.md#render
C11_Witness ==
    /\ pc = "link_ret"
    /\ Len(fromItem) = 6
    /\ Len(apiItem) = 5
    /\ link = <<".", ".", "/", ".", ".", "/">> \o I_Widget \o DotMd \o <<"#">> \o I_render


-----------------------------------------------------------------------------
(* MarkdownDocumenter.generateFiles: the API model *)

\* the number of items below the packages of an API model
MaxApiItems == 2

P_lib == <<"l", "i", "b">>
I_E == <<"E">>
I_T == <<"T">>
I_v == <<"v">>
I_new == <<"(", "n", "e", "w", ")">>

\* an ApiItem with its members (a package's are entryPoints[0].members)
Node(item, members) == [item |-> item, members |-> members]

ClassMemberNodes ==
    {Node(Callable("Method", I_render, 0), <<>>),
     Node(Item("Property", I_Go), <<>>),
     Node(Callable("Constructor", I_ctor, 0), <<>>)}

InterfaceMemberNodes ==
    {Node(Callable("MethodSignature", I_render, 0), <<>>),
     Node(Item("PropertySignature", I_Go), <<>>),
     Node(Callable("ConstructSignature", I_new, 0), <<>>)}

LeafNodes ==
    {Node(Callable("Function", I_f, 0), <<>>),
     Node(Item("Enum", I_E), <<>>),
     Node(Item("TypeAlias", I_T), <<>>),
     Node(Item("Variable", I_v), <<>>)}

\* the trees of exactly k items and the member lists of exactly n items, at a
\* level: the members of a class, of an interface, of a namespace, of a package
RECURSIVE TreesOf(_, _), ForestsOf(_, _)
TreesOf(k, level) ==
    CASE level = "class" -> IF k = 1 THEN ClassMemberNodes ELSE {}
      [] level = "interface" -> IF k = 1 THEN InterfaceMemberNodes ELSE {}
      [] OTHER ->
            (IF k = 1 THEN LeafNodes ELSE {})
                \cup {Node(Item("Class", I_Widget), ms) : ms \in ForestsOf(k - 1, "class")}
                \cup {Node(Item("Interface", I_Widget), ms) :
                        ms \in ForestsOf(k - 1, "interface")}
                \cup (IF level = "package"
                      THEN {Node(Item("Namespace", n), ms) :
                              n \in {I_NS, I_Widget}, ms \in ForestsOf(k - 1, "namespace")}
                      ELSE {})

ForestsOf(n, level) ==
    IF n = 0 THEN {<<>>}
    ELSE UNION {{<<t>> \o r : t \in TreesOf(k, level), r \in ForestsOf(n - k, level)} :
                  k \in 1..n}

PackageNode(name, n) == {Node(Item("Package", name), ms) : ms \in ForestsOf(n, "package")}

\* this._apiModel.packages: one package, or two
ApiModels ==
    UNION {{<<p>> : p \in PackageNode(P_acme, n)} : n \in 0..MaxApiItems}
        \cup UNION {UNION {{<<p, q>> : p \in PackageNode(P_acme, n),
                                       q \in PackageNode(name, m)} :
                             m \in 0..(MaxApiItems - n)} :
                      n \in 0..MaxApiItems, name \in {P_scoped, P_lib}}

-----------------------------------------------------------------------------
(* MarkdownDocumenter.generateFiles: rendering and writing the pages *)

\* the case labels of the switches of _writeApiItem
SupportedKinds ==
    {"Class", "Enum", "Interface", "Method", "MethodSignature", "Function", "Namespace",
     "Package", "Property", "PropertySignature", "TypeAlias", "Variable"}

\* the case labels of the switch of _writePackageOrNamespaceTables
PageMemberKinds ==
    {"Class", "Enum", "Interface", "Namespace", "Function", "TypeAlias", "Variable"}

\* the case labels of the switch of _writeInterfaceTables
TableMemberKinds == {"MethodSignature", "Method", "PropertySignature", "Property"}

internalKindsOnlyMethods == {"Method", "MethodSignature"}

internalKinds == {"Method", "MethodSignature", "Property", "PropertySignature"}

\* the table a member's row is added to
tableOf(kind) ==
    CASE kind = "Class" -> "Classes"
      [] kind = "Enum" -> "Enumerations"
      [] kind = "Interface" -> "Interfaces"
      [] kind = "Namespace" -> "Namespaces"
      [] kind = "Function" -> "Functions"
      [] kind = "TypeAlias" -> "Type Aliases"
      [] kind = "Variable" -> "Variables"
      [] kind \in {"Method", "MethodSignature"} -> "Methods"
      [] kind \in {"Property", "PropertySignature"} -> "Properties"

\* a table row: its title cell links from the page's item to the member
Row(at, memberHierarchy, h) ==
    [table |-> tableOf(Last(memberHierarchy).kind),
     at |-> at,
     link |-> getLinkFilenameForApiItem(memberHierarchy, h)]

\* FileSystem.writeFile(filename, ...) of the page of the item at a position
WriteFileCall(at, h, rendered) ==
    [op |-> "writeFile",
     at |-> at,
     kind |-> Last(h).kind,
     filename |-> getFilenameForApiItem(h),
     rows |-> rendered.rows,
     inline |-> rendered.inline]

\* throw new Error('Unsupported API item kind: ' + apiItem.kind)
Unsupported(kind) == [op |-> "throw", error |-> "Unsupported API item kind", kind |-> kind]

Thrown(events) == Len(events) > 0 /\ events[Len(events)].op = "throw"

\* statements in sequence: an exception skips the ones after it
RECURSIVE SeqUntilThrown(_)
SeqUntilThrown(steps) ==
    IF Len(steps) = 0 THEN <<>>
    ELSE IF Thrown(Head(steps)) THEN Head(steps)
    ELSE Head(steps) \o SeqUntilThrown(Tail(steps))

\* the positions of the members of the given kinds, in member order
MembersOfKind(node, kinds) ==
    SelectSeq([i \in 1..Len(node.members) |-> i],
              LAMBDA i : node.members[i].item.kind \in kinds)

Rendered(events, rows, inline) == [events |-> events, rows |-> rows, inline |-> inline]

inlineDetailNone(members) == SubSeq(members, 1, 0)

\* for (let item of properties / methods) this._writeApiItem(item, output)
inlineDetail(members) == members

RECURSIVE writeApiItem(_, _, _), writeApiItemPage(_, _, _)

\* _writePackageOrNamespaceTables: a row and a page for every member of a
\* kind the switch names, in member order
writePackageOrNamespaceTables(node, at, h) ==
    LET scope == IF node.item.kind = "Package" THEN Append(h, Item("EntryPoint", <<>>)) ELSE h
        listed == MembersOfKind(node, PageMemberKinds)
    IN  Rendered(
            SeqUntilThrown([k \in 1..Len(listed) |->
                writeApiItemPage(node.members[listed[k]], Append(at, listed[k]),
                                 Append(scope, node.members[listed[k]].item))]),
            [k \in 1..Len(listed) |->
                Row(Append(at, listed[k]), Append(scope, node.members[listed[k]].item), h)],
            <<>>)

\* _writeInterfaceTables: a row for every property and method, _writeApiItemPage
\* for each in member order, then the members' detail appended below the
\* Properties and the Methods table (no member of the model is an event)
writeInterfaceTables(node, at, h) ==
    LET properties == MembersOfKind(node, {"PropertySignature", "Property"})
        methods == MembersOfKind(node, {"MethodSignature", "Method"})
        listed == MembersOfKind(node, TableMemberKinds)
        detailed == inlineDetail(properties \o methods)
    IN  Rendered(
            SeqUntilThrown(
                [k \in 1..Len(listed) |->
                    writeApiItemPage(node.members[listed[k]], Append(at, listed[k]),
                                     Append(h, node.members[listed[k]].item))]
                \o [k \in 1..Len(detailed) |->
                    writeApiItem(node.members[detailed[k]], Append(at, detailed[k]),
                                 Append(h, node.members[detailed[k]].item)).events]),
            [k \in 1..Len(properties \o methods) |->
                Row(Append(at, (properties \o methods)[k]),
                    Append(h, node.members[(properties \o methods)[k]].item), h)],
            [k \in 1..Len(detailed) |-> Append(at, detailed[k])])

\* _writeApiItem(apiItem, output): both switches throw on a kind they do not name
writeApiItem(node, at, h) ==
    CASE node.item.kind \notin SupportedKinds ->
            Rendered(<<Unsupported(node.item.kind)>>, <<>>, <<>>)
      [] node.item.kind \in {"Class", "Interface"} -> writeInterfaceTables(node, at, h)
      [] node.item.kind \in {"Namespace", "Package"} ->
            writePackageOrNamespaceTables(node, at, h)
      [] OTHER -> Rendered(<<>>, <<>>, <<>>)

writeApiItemPagePreOrder(node, at, h) ==
    LET rendered == writeApiItem(node, at, h)
    IN  IF Thrown(rendered.events) THEN rendered.events
        ELSE IF node.item.kind \notin internalKinds
             THEN <<WriteFileCall(at, h, rendered)>> \o rendered.events
        ELSE rendered.events

\* _writeApiItemPage(apiItem): render, then write the file unless the item's
\* kind is one of internalKinds
writeApiItemPage(node, at, h) ==
    LET rendered == writeApiItem(node, at, h)
    IN  IF Thrown(rendered.events) THEN rendered.events
        ELSE IF node.item.kind \notin internalKinds
             THEN Append(rendered.events, WriteFileCall(at, h, rendered))
        ELSE rendered.events

\* for (const apiPackage of this._apiModel.packages) this._writeApiItemPage(apiPackage)
writePackages(packages) ==
    SeqUntilThrown([p \in 1..Len(packages) |->
        writeApiItemPage(packages[p], <<p>>, <<Item("Model", <<>>), packages[p].item>>)])

-----------------------------------------------------------------------------
(* MarkdownDocumenter.generateFiles: the run *)

A_oldMd == <<"o", "l", "d", ".", "m", "d">>

\* a file of the output folder left by a previous run
StaleFile(name) ==
    [filename |-> name, run |-> "previous", at |-> <<>>, kind |-> "Package",
     rows |-> <<>>, inline |-> <<>>]

StaleFiles == {StaleFile(P_acme \o DotMd), StaleFile(A_oldMd)}

ensureEmptyFolderKeeps(files) == files

\* FileSystem.ensureEmptyFolder(this._outputFolder)
ensureEmptyFolder(files) == {}

\* FileSystem.writeFile: creates the file or replaces the one of that name
writeFile(files, call) ==
    {f \in files : f.filename # call.filename}
        \cup {[filename |-> call.filename, run |-> "current", at |-> call.at,
               kind |-> call.kind, rows |-> call.rows, inline |-> call.inline]}

InitGenerate ==
    /\ pc = "gen_start"
    /\ apiModel \in ApiModels
    /\ outFiles \in SUBSET StaleFiles
    /\ writes = <<>>
    /\ agenda = <<>>
    /\ IdleSidebar
    /\ IdleNiceName
    /\ IdleFilename

\* generateFiles: this._deleteOldOutputFiles(), and the loop over the
\* packages entered: agenda is what the loop will do, in order
DeleteOldOutputFiles ==
    /\ pc = "gen_start"
    /\ outFiles' = ensureEmptyFolder(outFiles)
    /\ agenda' = writePackages(apiModel)
    /\ pc' = "gen_write"
    /\ UNCHANGED <<apiModel, writes>>
    /\ UNCHANGED <<fs, root, sidebarFile, nnName, nnLabel, apiItem, filename>>
    /\ UNCHANGED <<sidebarEnv, linkVars>>

\* _writeApiItemPage: mkdirp.sync and FileSystem.writeFile succeed
WriteApiItemPage ==
    /\ pc = "gen_write"
    /\ Len(agenda) > 0
    /\ Head(agenda).op = "writeFile"
    /\ outFiles' = writeFile(outFiles, Head(agenda))
    /\ writes' = Append(writes, Head(agenda))
    /\ agenda' = Tail(agenda)
    /\ UNCHANGED <<pc, apiModel>>
    /\ UNCHANGED <<fs, root, sidebarFile, nnName, nnLabel, apiItem, filename>>
    /\ UNCHANGED <<sidebarEnv, linkVars>>

\* an exception leaves generateFiles: mkdirp.sync or FileSystem.writeFile
\* throws in _writeApiItemPage, or _writeApiItem throws on the item's kind
ExceptionLeavesGenerateFiles ==
    /\ pc = "gen_write"
    /\ Len(agenda) > 0
    /\ pc' = "gen_failed"
    /\ UNCHANGED genVars
    /\ UNCHANGED <<fs, root, sidebarFile, nnName, nnLabel, apiItem, filename>>
    /\ UNCHANGED <<sidebarEnv, linkVars>>

\* generateFiles returns
GenerateFilesReturns ==
    /\ pc = "gen_write"
    /\ Len(agenda) = 0
    /\ pc' = "gen_done"
    /\ UNCHANGED genVars
    /\ UNCHANGED <<fs, root, sidebarFile, nnName, nnLabel, apiItem, filename>>
    /\ UNCHANGED <<sidebarEnv, linkVars>>

NextGenerate ==
    \/ DeleteOldOutputFiles
    \/ WriteApiItemPage
    \/ ExceptionLeavesGenerateFiles
    \/ GenerateFilesReturns

SpecGenerate == InitGenerate /\ [][NextGenerate]_vars

-----------------------------------------------------------------------------
(* C12 *)

\* the positions of all items below a member list
RECURSIVE PositionsIn(_, _)
PositionsIn(members, prefix) ==
    UNION {{Append(prefix, i)} \cup PositionsIn(members[i].members, Append(prefix, i)) :
             i \in 1..Len(members)}

RECURSIVE NodeIn(_, _)
NodeIn(members, at) ==
    IF Len(at) = 1 THEN members[at[1]] ELSE NodeIn(members[at[1]].members, Tail(at))

KindAt(at) == NodeIn(apiModel, at).item.kind

Parent(at) == SubSeq(at, 1, Len(at) - 1)

NoPageKinds == {"Method", "MethodSignature", "Property", "PropertySignature"}

\* the packages, and the members of a package or namespace that get a page
PagePositions ==
    {at \in PositionsIn(apiModel, <<>>) :
        \/ KindAt(at) = "Package"
        \/ /\ Len(at) > 1
           /\ KindAt(Parent(at)) \in {"Package", "Namespace"}
           /\ KindAt(at) \in {"Class", "Enum", "Interface", "Namespace", "Function",
                              "TypeAlias", "Variable"}}

WrittenAt == {writes[i].at : i \in 1..Len(writes)}

\* C12: no file is ever written for a method, method signature, property or
\* property signature; no item's file is written twice; and when
\* generateFiles has returned, exactly the packages and the classes, enums,
\* interfaces, namespaces, functions, type aliases and variables that are
\* members of a package or namespace have had their file written.
C12_OneWritePerPageItem ==
    /\ \A i \in 1..Len(writes) :
          /\ writes[i].kind \notin NoPageKinds
          /\ KindAt(writes[i].at) = writes[i].kind
          /\ \A j \in 1..Len(writes) : writes[i].at = writes[j].at => i = j
    /\ WrittenAt \subseteq PagePositions
    /\ pc = "gen_done" => WrittenAt = PagePositions

\* a run has returned for a package with a class that has a property: two
\* files written, none for the property
C12_Witness ==
    /\ pc = "gen_done"
    /\ Len(writes) = 2
    /\ \E at \in PositionsIn(apiModel, <<>>) : KindAt(at) = "Property"

-----------------------------------------------------------------------------
(* C13 *)

\* the positions of the properties and methods of the item at a position
TableMembersAt(at) ==
    {Append(at, i) : i \in {j \in 1..Len(NodeIn(apiModel, at).members) :
                              KindAt(Append(at, j)) \in NoPageKinds}}

\* the row of a member points at the anchor of the member on the page itself
RowIsAnchorOnPage(row, page) ==
    /\ row.table = (IF KindAt(row.at) \in {"Method", "MethodSignature"}
                    THEN "Methods" ELSE "Properties")
    /\ Join(FollowLink(DirSegments(page.filename), Split(row.link, "/")), <<"/">>)
          = page.filename \o <<"#">> \o toLowerCase(NodeIn(apiModel, row.at).item.displayName)

\* properties before methods, each group in member order
DetailOrdered(inline) ==
    \A k, l \in 1..Len(inline) :
        k < l =>
            \/ KindAt(inline[k]) \in {"Property", "PropertySignature"}
                  /\ KindAt(inline[l]) \in {"Method", "MethodSignature"}
            \/ (KindAt(inline[k]) \in {"Property", "PropertySignature"}
                   <=> KindAt(inline[l]) \in {"Property", "PropertySignature"})
                  /\ inline[k][Len(inline[k])] < inline[l][Len(inline[l])]

\* C13 (as the code has it): the page of a class and the page of an interface
\* are rendered alike: one row per property and method, linking to an anchor
\* on the page itself, and the detail of each of these members inline on the
\* page, properties before methods; no member of either gets a file of its own.
C13_DetailInlineForBoth ==
    \A i \in 1..Len(writes) :
        writes[i].kind \in {"Class", "Interface"} =>
            /\ {writes[i].rows[k].at : k \in 1..Len(writes[i].rows)}
                  = TableMembersAt(writes[i].at)
            /\ \A k \in 1..Len(writes[i].rows) : RowIsAnchorOnPage(writes[i].rows[k], writes[i])
            /\ {writes[i].inline[k] : k \in 1..Len(writes[i].inline)}
                  = TableMembersAt(writes[i].at)
            /\ Len(writes[i].inline) = Cardinality(TableMembersAt(writes[i].at))
            /\ DetailOrdered(writes[i].inline)
            /\ \A at \in PositionsIn(apiModel, <<>>) :
                  Len(at) > 1 /\ Parent(at) = writes[i].at => at \notin WrittenAt

\* the page of a class with a method has been written, the method's detail on it
C13_Witness ==
    /\ pc = "gen_done"
    /\ \E i \in 1..Len(writes) :
          /\ writes[i].kind = "Class"
          /\ Len(writes[i].inline) = 1
          /\ KindAt(writes[i].inline[1]) = "Method"

\* C13 as stated: a class page carries no member detail and, when the run
\* has returned, every property and method of the class has a file of its own
C13_ClassMembersGetOwnPages ==
    \A i \in 1..Len(writes) :
        writes[i].kind = "Class" =>
            /\ writes[i].inline = <<>>
            /\ pc = "gen_done" => TableMembersAt(writes[i].at) \subseteq WrittenAt

-----------------------------------------------------------------------------
(* C14 *)

ClaimedKinds ==
    {"Package", "Namespace", "Class", "Interface", "Enum", "Function", "Method",
     "MethodSignature", "Property", "PropertySignature", "TypeAlias", "Variable"}

\* C14: when some item of the model, at any depth, has a kind outside the
\* supported set, generateFiles does not return normally: the run with such
\* an item never completes with the item left out of tables and pages.
C14_UnsupportedKindAborts ==
    (\E at \in PositionsIn(apiModel, <<>>) : KindAt(at) \notin ClaimedKinds)
        => pc # "gen_done"

-----------------------------------------------------------------------------
(* C15 *)

\* the last write of the run to a file name
LastWriteTo(name) ==
    writes[SetMax({i \in 1..Len(writes) : writes[i].filename = name})]

\* C15: no page is written before the output folder has been emptied, and
\* from the emptying on, also where the run has aborted, the folder holds
\* exactly the files written by the current run, each as its last write left
\* it: nothing of a previous run remains and nothing written is removed again.
C15_OnlyFilesOfThisRun ==
    /\ pc = "gen_start" => writes = <<>>
    /\ pc \in {"gen_write", "gen_failed", "gen_done"} =>
          /\ {f.filename : f \in outFiles} = {writes[i].filename : i \in 1..Len(writes)}
          /\ \A f \in outFiles :
                /\ f.run = "current"
                /\ f.at = LastWriteTo(f.filename).at

\* a run has aborted with a part of its pages written
C15_Witness ==
    /\ pc = "gen_failed"
    /\ Len(writes) > 0
    /\ Len(agenda) > 0
    /\ outFiles # {}

-----------------------------------------------------------------------------
(* C18 *)

\* C18: no two writes of a run go to the same file name, and when
\* generateFiles has returned the output folder holds as many files as the
\* model has page-producing items.
C18_NoPageOverwritten ==
    /\ \A i, j \in 1..Len(writes) : writes[i].filename = writes[j].filename => i = j
    /\ pc = "gen_done" => Cardinality(outFiles) = Cardinality(PagePositions)

-----------------------------------------------------------------------------
(* C19 *)

IsPrefix(s, t) == Len(s) <= Len(t) /\ SubSeq(t, 1, Len(s)) = s

\* the file a row's link leads to from the page it is on
LinkTarget(row, page) ==
    Join(FollowLink(DirSegments(page.filename), Split(row.link, "/")), <<"/">>)

\* C19: the file of a package or namespace is written after the files of all
\* page-producing items below it, so whenever the page of a package or
\* namespace is in the output folder, also after an abort, every file its
\* member tables link to is there as well.
C19_PostOrder ==
    /\ \A i \in 1..Len(writes) :
          writes[i].kind \in {"Package", "Namespace"} =>
              \A at \in PagePositions :
                  IsPrefix(writes[i].at, at) /\ at # writes[i].at =>
                      \E j \in 1..(i - 1) : writes[j].at = at
    /\ \A f \in outFiles :
          f.kind \in {"Package", "Namespace"} =>
              \A k \in 1..Len(f.rows) :
                  LinkTarget(f.rows[k], f) \in {g.filename : g \in outFiles}

\* the run has aborted at the write of a package's page: the page of its
\* namespace is in the folder, and so is the page its table links to
C19_Witness ==
    /\ pc = "gen_failed"
    /\ Len(agenda) = 1
    /\ \E f \in outFiles : f.kind = "Namespace" /\ Len(f.rows) = 1

-----------------------------------------------------------------------------
(* C16 *)

\* the failing call is one the scan makes: no name on its path is skipped
FaultOnScan ==
    /\ fault.op \in {"readdir", "stat"}
    /\ \A seg \in SegSet(Split(fault.path, "/")) : ~SkipContains(seg)

\* C16: when a readdir or stat the scan makes fails, at any depth, the run
\* neither builds a tree nor touches _sidebar.md, and it ends with exit status
\* 1 and a diagnostic naming the docs directory and the reason; a failing
\* write ends the same way; and a run ends like that for no other cause.
C16_FailureIsFatal ==
    /\ FaultOnScan =>
          /\ pc \in {"start", "failed"}
          /\ root = NoEntry
          /\ sidebarFile = (IF HasEntry(fs, A_sidebarMd)
                            THEN [exists |-> TRUE, text |-> StaleText] ELSE NoFile)
    /\ fault.op = "write" => pc # "done"
    /\ pc = "failed" =>
          /\ FaultOnScan \/ fault.op = "write"
          /\ exitCode = 1
          /\ Len(stderr) = 2
          /\ stderr[1].value = DocsDirPath
          /\ stderr[2].value = <<fault.op>> \o fault.path
    /\ pc # "failed" => exitCode = -1 /\ stderr = <<>>

\* the run has failed on the stat of an entry of a subdirectory
C16_Witness ==
    /\ pc = "failed"
    /\ fault.op = "stat"
    /\ \E i \in 1..Len(fs) : fs[i].isDir /\ Len(fs[i].entries) = 1
          /\ fault.path = <<"/">> \o fs[i].name \o <<"/">> \o fs[i].entries[1].name

-----------------------------------------------------------------------------
(* C17 *)

RECURSIVE Flatten(_)
Flatten(ss) == IF Len(ss) = 0 THEN <<>> ELSE Head(ss) \o Flatten(Tail(ss))

\* the lines of a node of the built tree, top to bottom: its own line at
\* 2 * depth spaces, then its children's in children order. asStated: every
\* named container has the plain heading and a container without children
\* has no line below it. Otherwise a folded container's heading is its link
\* line, and a container without children has one line of nothing but its
\* children's indent.
RECURSIVE ExpectedLines(_, _, _)
ExpectedLines(t, folded, asStated) ==
    IF IsLeaf(t) THEN <<LeafLineOf(t)>>
    ELSE LET shown == SelectSeq(t.children, LAMBDA c : ~HasDirTwin(t, c))
             heading ==
                 IF t.name = <<>> THEN <<>>
                 ELSE IF folded /\ ~asStated
                      THEN <<Indent(Depth(t)) \o LinkTo(niceName(StripMd(t.name)), Enc(t.path))>>
                 ELSE <<Indent(Depth(t)) \o <<"-", " ">> \o niceName(t.name)>>
         IN  heading \o
                (IF Len(shown) = 0 THEN (IF asStated THEN <<>> ELSE <<Indent(Depth(t) + 1)>>)
                 ELSE Flatten([k \in 1..Len(shown) |->
                                ExpectedLines(shown[k], HasFileTwin(t, shown[k]), asStated)]))

\* C17 (amended): the written text is, line by line, the built tree top to
\* bottom in children order: a node at depth d below the root has its line
\* at 2*d spaces; a named container has a heading line, `- <niceName(name)>`
\* or, when folded with a leaf beside it, its link line; the root has none;
\* and a container without children renders as a single line of two spaces.
C17_LinesFollowTree ==
    pc = "done" => sidebarFile.text = Join(ExpectedLines(root, FALSE, FALSE), <<NL>>)

\* a sidebar was written for a tree with a leaf three levels below the root
C17_Witness ==
    /\ pc = "done"
    /\ \E n \in Leaves(root) : Depth(n) = 3
    /\ Len(Lines) = 3

\* C17 as stated: every named container has the heading `- <niceName(name)>`,
\* and a container's text is nothing but that heading and its children's
\* lines, each indented by two more spaces
C17_LinesAsStated ==
    pc = "done" => sidebarFile.text = Join(ExpectedLines(root, FALSE, TRUE), <<NL>>)

-----------------------------------------------------------------------------
(* The older sidebar generator, src/src/index.ts *)

\* the number of entries of the docs directory / of the file system root
MaxOldNodes == 2
MaxSysNodes == 1

Missing == [missing |-> TRUE]

\* the entry an absolute path names, looked up from the file system root
RECURSIVE EntryAt(_, _)
EntryAt(listing, segs) ==
    LET found == {i \in 1..Len(listing) : listing[i].name = Head(segs)}
    IN  IF found = {} THEN Missing
        ELSE LET e == listing[CHOOSE i \in found : TRUE]
             IN  IF Len(segs) = 1 THEN e
                 ELSE IF e.isDir THEN EntryAt(e.entries, Tail(segs))
                 ELSE Missing

\* fs.statSync(iPath): iPath = tPath + '/' + item is resolved from "/"
statSync(sys, iPath) == EntryAt(sys, Tail(Split(iPath, "/")))

Failed == [ok |-> FALSE]

\* buildTree of index.ts: the loop over fs.readdirSync(location), from item i
\* on; ok is FALSE when a statSync or a readdirSync throws
RECURSIVE oldBuildChildren(_, _, _, _)
oldBuildChildren(dir, tPath, i, sys) ==
    IF i > Len(dir) THEN [ok |-> TRUE, children |-> <<>>]
    ELSE LET item == dir[i].name
             iPath == tPath \o <<"/">> \o item
             rest == oldBuildChildren(dir, tPath, i + 1, sys)
             stat == statSync(sys, iPath)
             sub == oldBuildChildren(dir[i].entries, iPath, 1, sys)
         IN  IF ignores(item) THEN rest
             ELSE IF stat = Missing THEN Failed
             ELSE IF stat.isDir
                  THEN IF ~dir[i].isDir \/ ~sub.ok \/ ~rest.ok THEN Failed
                       ELSE [ok |-> TRUE,
                             children |-> <<[name |-> item, children |-> sub.children,
                                             path |-> iPath]>> \o rest.children]
             ELSE IF ~rest.ok THEN Failed
             ELSE IF isDoc(item)
                  THEN [ok |-> TRUE,
                        children |-> <<[name |-> item, path |-> iPath]>> \o rest.children]
             ELSE rest

\* renderToMd of index.ts
RECURSIVE oldRenderToMd(_)
oldRenderToMd(tree) ==
    IF IsLeaf(tree)
    THEN <<"-", " ", "[">> \o Head(Split(tree.name, ".")) \o <<"]", "(">>
            \o ReplaceSpaces(tree.path) \o <<")">>
    ELSE (IF tree.name # <<>> THEN <<"-", " ">> \o tree.name \o <<NL>> ELSE <<>>)
            \o IndentLines(Join([k \in 1..Len(tree.children) |->
                                    oldRenderToMd(tree.children[k])], <<NL>>))

\* what "/" holds: any listing, also a file named like a directory of the
\* docs directory and a directory named like one of its files
SysRoots ==
    UNION {ListingsOf(n) : n \in 0..MaxSysNodes}
        \cup {<<File(A_X)>>, <<Dir(A_cmd, <<>>)>>}

InitOldSidebar ==
    /\ pc = "old_start"
    /\ fs \in UNION {ListingsOf(n) : n \in 0..MaxOldNodes}
    /\ sysRoot \in SysRoots
    /\ root = NoEntry
    /\ sidebarFile = IF HasEntry(fs, A_sidebarMd)
                     THEN [exists |-> TRUE, text |-> StaleText] ELSE NoFile
    /\ fault = NoFault
    /\ exitCode = -1
    /\ stderr = <<>>
    /\ IdleNiceName
    /\ IdleFilename
    /\ IdleGenerate

\* let root = buildTree(dir)
OldBuildTree ==
    /\ pc = "old_start"
    /\ oldBuildChildren(fs, <<>>, 1, sysRoot).ok
    /\ root' = [name |-> <<>>,
                children |-> oldBuildChildren(fs, <<>>, 1, sysRoot).children,
                path |-> <<>>]
    /\ pc' = "old_built"
    /\ UNCHANGED <<fs, sidebarFile, sidebarEnv>>
    /\ UNCHANGED <<nnName, nnLabel, apiItem, filename, linkVars, genVars>>

\* buildTree(dir) throws; catch (e): the two console.error, process.exit(1)
OldBuildTreeThrows ==
    /\ pc = "old_start"
    /\ ~oldBuildChildren(fs, <<>>, 1, sysRoot).ok
    /\ stderr' = Diagnostic([op |-> "stat", path |-> <<>>])
    /\ exitCode' = 1
    /\ pc' = "old_failed"
    /\ UNCHANGED <<fs, root, sidebarFile, fault, sysRoot>>
    /\ UNCHANGED <<nnName, nnLabel, apiItem, filename, linkVars, genVars>>

\* fs.writeFileSync(path.join(dir, '_sidebar.md'), renderToMd(root))
OldWriteSidebar ==
    /\ pc = "old_built"
    /\ sidebarFile' = [exists |-> TRUE, text |-> oldRenderToMd(root)]
    /\ fs' = IF HasEntry(fs, A_sidebarMd) THEN fs ELSE Append(fs, File(A_sidebarMd))
    /\ pc' = "old_done"
    /\ UNCHANGED <<root, sidebarEnv>>
    /\ UNCHANGED <<nnName, nnLabel, apiItem, filename, linkVars, genVars>>

NextOldSidebar == OldBuildTree \/ OldBuildTreeThrows \/ OldWriteSidebar

SpecOldSidebar == InitOldSidebar /\ [][NextOldSidebar]_vars

-----------------------------------------------------------------------------
(* C20 *)

LeafPaths(t) == {n.path : n \in Leaves(t)}

\* C20: on every docs directory the older generator builds a tree as the
\* yargs-based one does: it does not fail where that one succeeds, and the
\* tree it has built has the same set of leaf paths.
C20_SameLeavesAsYargsGenerator ==
    /\ pc # "old_failed"
    /\ pc = "old_built" => LeafPaths(root) = LeafPaths(buildTree(fs, <<>>, <<>>))

=============================================================================
